---- MODULE Spec2Model ----
(***************************************************************************)
(* Model of the clock-App backend (my_backend/main.py, models.py): two     *)
(* tables, users and leave_requests, and one action per request handler.   *)
(* Spec serves the requests one after another, a handler being one atomic  *)
(* step followed by the close of its session. SpecAccounts and SpecLeaves  *)
(* are Spec restricted to the handlers of one table (and the signups that  *)
(* the rows of leave_requests depend on). SpecConc splits the two signup   *)
(* handlers into their query and their commit, run in concurrent sessions. *)
(***************************************************************************)
EXTENDS Integers, Sequences, FiniteSets

\* ---------------------------------------------------------------- bounds
\* Rows the leave_requests table may hold (the table is unbounded).
MaxLeaves == 2
\* Last value of the wall clock (datetime.utcnow / date.today).
MaxClock == 1
\* Signup requests that may be in flight at once in SpecConc.
MaxSessions == 2

\* ---------------------------------------------------------------- inputs
Usernames == {"ann", "bob"}
Phones == {"p1", "p2"}
Passwords == {"pw1", "pw2"}
\* The username and message a notify-admin request carries: both are copied
\* into the row as they come and read by no handler.
NotifyNames == {"ann"}
Messages == {"sick"}
\* Request bodies' time strings, as sequences of characters.
TimeStrings ==
  { <<"0", "9", ":", "0", "5">>,
    <<"9", ":", "5">>,
    <<"2", "5", ":", "6", "1">>,
    <<"1", "2", ":", "6", "0">>,
    <<"2", "4", ":", "0", "0">>,
    <<"2", "3", ":", "5", "9">>,
    <<"9", "3", "0">> }

\* SQL NULL of a nullable String column; no request carries it.
NULL == "NULL"
\* SQL NULL of the nullable DateTime column assigned_time.
NoTime == << >>

VARIABLES users, leaves, now, resp, sess

vars == <<users, leaves, now, resp, sess>>

Sessions == 1..MaxSessions

\* ---------------------------------------------------------------- tables
\* models.User: one row of the users table.
UserRow(id, role, username, password, phone) ==
  [id |-> id, role |-> role, username |-> username, password |-> password,
   phone |-> phone, assigned_time |-> NoTime]

\* models.LeaveRequest: one row of leave_requests; status is given by the
\* handler, created_at is the column default datetime.utcnow.
LeaveRow(id, user_id, username, message) ==
  [id |-> id, user_id |-> user_id, username |-> username, message |-> message,
   status |-> "pending", created_at |-> now]

Rows(table) == {table[i] : i \in 1..Len(table)}

\* No request is being served: requests are served one after another, each
\* in its own session (get_db), whose response is resp until it is closed.
NoResp == [op |-> "none", code |-> 0]
Idle == resp = NoResp

\* db.query(models.User).filter(models.User.phone == phone).first()
UsersByPhone(phone) == {u \in Rows(users) : u.phone = phone}

\* Mutant: the query has lost its filter on id.
UsersById_NoFilter(user_id) == Rows(users)

\* db.query(models.User).filter(models.User.id == user_id).first()
UsersById(user_id) == {u \in Rows(users) : u.id = user_id}

\* db.query(models.LeaveRequest).filter(models.LeaveRequest.id == leave_id).first()
LeavesById(leave_id) == {l \in Rows(leaves) : l.id = leave_id}

\* Mutant: the users table has no unique constraint on phone.
PhoneUniqueOk_Absent(phone) == TRUE

\* unique=True on users.phone: the store refuses a second row with the phone.
PhoneUniqueOk(phone) == \A u \in Rows(users) : u.phone # phone

\* unique=True on users.username.
UsernameUniqueOk(username) == \A u \in Rows(users) : u.username # username

\* db.add(row); db.commit(): the INSERT passes the table's unique constraints
\* or raises IntegrityError, which no handler catches.
CommitOk(row) == PhoneUniqueOk(row.phone) /\ UsernameUniqueOk(row.username)

\* ---------------------------------------------------------------- signup
\* Mutant: the handler has no existence check.
PhoneRegistered_NoCheck(phone) == FALSE

\* The handlers' existence check: "if existing_admin" / "if existing_user".
PhoneRegistered(phone) == UsersByPhone(phone) # {}

\* signup_admin / signup_user as one step. role is "admin" or "user"; a user
\* row gets no password.
Signup(op, role, username, phone, password) ==
  LET row == UserRow(Len(users) + 1, role, username, password, phone)
      req == [username |-> username, phone |-> phone, role |-> role]
  IN /\ Idle
     /\ IF PhoneRegistered(phone)
          THEN /\ resp' = [op |-> op, code |-> 400, req |-> req]
               /\ UNCHANGED users
          ELSE IF ~CommitOk(row)
            THEN /\ resp' = [op |-> op, code |-> 500, req |-> req]
                 /\ UNCHANGED users
            ELSE /\ users' = Append(users, row)
                 /\ resp' = [op |-> op, code |-> 200, req |-> req]
     /\ UNCHANGED <<leaves, now, sess>>

signup_admin ==
  \E un \in Usernames, ph \in Phones, pw \in Passwords :
    Signup("signup_admin", "admin", un, ph, pw)

signup_user ==
  \E un \in Usernames, ph \in Phones :
    Signup("signup_user", "user", un, ph, NULL)

\* ---------------------------------------------------------------- signup, interleaved
\* Lines 79-81 / 195-197 of a signup in session s: the existence query and
\* the 400 it leads to. A request that passes keeps its row for the commit.
signup_query(s) ==
  \E role \in {"admin", "user"}, un \in Usernames, ph \in Phones, pw \in Passwords :
    LET req == [role |-> role, username |-> un, phone |-> ph,
                password |-> IF role = "admin" THEN pw ELSE NULL]
    IN /\ sess[s].pc = "idle"
       /\ IF PhoneRegistered(ph)
            THEN sess' = [sess EXCEPT ![s] = [pc |-> "done", req |-> req, code |-> 400]]
            ELSE sess' = [sess EXCEPT ![s] = [pc |-> "checked", req |-> req]]
       /\ UNCHANGED <<users, leaves, now, resp>>

\* Lines 83-91 / 199-206 of a signup in session s: db.add, db.commit. The
\* table may have changed since the query of this session.
signup_commit(s) ==
  LET req == sess[s].req
      row == UserRow(Len(users) + 1, req.role, req.username, req.password, req.phone)
  IN /\ sess[s].pc = "checked"
     /\ IF CommitOk(row)
          THEN /\ users' = Append(users, row)
               /\ sess' = [sess EXCEPT ![s] = [pc |-> "done", req |-> req, code |-> 200]]
          ELSE /\ sess' = [sess EXCEPT ![s] = [pc |-> "done", req |-> req, code |-> 500]]
               /\ UNCHANGED users
     /\ UNCHANGED <<leaves, now, resp>>

\* get_db's "finally: db.close()" of session s.
session_close(s) ==
  /\ sess[s].pc = "done"
  /\ sess' = [sess EXCEPT ![s] = [pc |-> "idle"]]
  /\ UNCHANGED <<users, leaves, now, resp>>

\* ---------------------------------------------------------------- leaves
\* notify_admin: 404 when no user has the id, else one pending row is added.
notify_admin ==
  \E user_id \in 1..(Len(users) + 1), un \in NotifyNames, msg \in Messages :
    LET row == LeaveRow(Len(leaves) + 1, user_id, un, msg)
        req == [user_id |-> user_id, username |-> un, message |-> msg]
    IN /\ Idle
       /\ IF UsersById(user_id) = {}
            THEN /\ resp' = [op |-> "notify_admin", code |-> 404, req |-> req]
                 /\ UNCHANGED leaves
            ELSE /\ Len(leaves) < MaxLeaves
                 /\ leaves' = Append(leaves, row)
                 /\ resp' = [op |-> "notify_admin", code |-> 200, req |-> req,
                             body |-> row]
       /\ UNCHANGED <<users, now, sess>>

\* filter(models.LeaveRequest.status == "pending").all()
PendingLeaves == {l \in Rows(leaves) : l.status = "pending"}

get_pending_leave_requests ==
  /\ Idle
  /\ resp' = [op |-> "get_pending_leave_requests", code |-> 200,
              body |-> PendingLeaves]
  /\ UNCHANGED <<users, leaves, now, sess>>

\* Mutant: the update has lost its filter on id.
SetStatus_AllRows(leave_id, status) ==
  [i \in 1..Len(leaves) |-> [leaves[i] EXCEPT !.status = status]]

\* Mutant: a transition guard, only a pending row is updated.
SetStatus_PendingOnly(leave_id, status) ==
  [i \in 1..Len(leaves) |->
     IF leaves[i].id = leave_id /\ leaves[i].status = "pending"
       THEN [leaves[i] EXCEPT !.status = status]
       ELSE leaves[i]]

\* leave_request.status = status; db.commit(): the row with the id gets the
\* status, whatever its status was.
SetStatus(leave_id, status) ==
  [i \in 1..Len(leaves) |->
     IF leaves[i].id = leave_id THEN [leaves[i] EXCEPT !.status = status]
     ELSE leaves[i]]

\* The body shared by approve_leave and reject_leave; was is the status of
\* the row as the query loaded it.
Decide(op, leave_id, status) ==
  /\ Idle
  /\ IF LeavesById(leave_id) = {}
       THEN /\ resp' = [op |-> op, code |-> 404, req |-> leave_id]
            /\ UNCHANGED leaves
       ELSE /\ leaves' = SetStatus(leave_id, status)
            /\ \E l \in LeavesById(leave_id) :
                 resp' = [op |-> op, code |-> 200, req |-> leave_id,
                          was |-> l.status]
  /\ UNCHANGED <<users, now, sess>>

approve_leave ==
  \E leave_id \in 1..(Len(leaves) + 1) : Decide("approve_leave", leave_id, "approved")

reject_leave ==
  \E leave_id \in 1..(Len(leaves) + 1) : Decide("reject_leave", leave_id, "rejected")

\* Mutant: ascending order, the oldest row comes first.
LatestLeaves_Ascending(user_id) ==
  LET mine == {l \in Rows(leaves) : l.user_id = user_id}
  IN {l \in mine : \A m \in mine : l.created_at <= m.created_at}

\* filter(user_id == user_id).order_by(created_at.desc()).first(): a row of
\* the user that no other row of the user is newer than; the store picks
\* among rows of equal created_at.
LatestLeaves(user_id) ==
  LET mine == {l \in Rows(leaves) : l.user_id = user_id}
  IN {l \in mine : \A m \in mine : m.created_at <= l.created_at}

get_latest_leave_request_by_user ==
  \E user_id \in 1..(Len(users) + 1) :
    LET op == "get_latest_leave_request_by_user"
    IN /\ Idle
       /\ IF UsersById(user_id) = {} \/ LatestLeaves(user_id) = {}
            THEN resp' = [op |-> op, code |-> 404, req |-> user_id]
            ELSE \E l \in LatestLeaves(user_id) :
                   resp' = [op |-> op, code |-> 200, req |-> user_id, body |-> l]
       /\ UNCHANGED <<users, leaves, now, sess>>

\* ---------------------------------------------------------------- login
\* Mutant: the password is not compared.
AdminMatches_NoPassword(username, password) ==
  {u \in Rows(users) : u.username = username /\ u.role = "admin"}

\* filter(username == .., password == .., role == "admin"); a NULL password
\* equals no request's password.
AdminMatches(username, password) ==
  {u \in Rows(users) :
     u.username = username /\ u.password = password /\ u.role = "admin"}

login_admin ==
  \E un \in Usernames, pw \in Passwords :
    LET req == [username |-> un, password |-> pw]
    IN /\ Idle
       /\ IF AdminMatches(un, pw) = {}
            THEN resp' = [op |-> "login_admin", code |-> 401, req |-> req]
            ELSE \E u \in AdminMatches(un, pw) :
                   resp' = [op |-> "login_admin", code |-> 200, req |-> req,
                            body |-> [role |-> u.role, username |-> u.username,
                                      userId |-> u.id]]
       /\ UNCHANGED <<users, leaves, now, sess>>

\* filter(phone == .., role == "user")
UserMatches(phone) == {u \in Rows(users) : u.phone = phone /\ u.role = "user"}

login_user ==
  \E ph \in Phones :
    /\ Idle
    /\ IF UserMatches(ph) = {}
         THEN resp' = [op |-> "login_user", code |-> 401, req |-> ph]
         ELSE \E u \in UserMatches(ph) :
                resp' = [op |-> "login_user", code |-> 200, req |-> ph,
                         body |-> [role |-> u.role, username |-> u.username,
                                   userId |-> u.id,
                                   assigned_time |-> u.assigned_time]]
    /\ UNCHANGED <<users, leaves, now, sess>>

\* ---------------------------------------------------------------- users
\* Mutant: the query has lost its filter on role.
UsersWithRoleUser_NoFilter == Rows(users)

\* db.query(models.User).filter(models.User.role == "user").all()
UsersWithRoleUser == {u \in Rows(users) : u.role = "user"}

get_users ==
  /\ Idle
  /\ resp' = [op |-> "get_users", code |-> 200, body |-> UsersWithRoleUser]
  /\ UNCHANGED <<users, leaves, now, sess>>

get_assigned_time ==
  \E user_id \in 1..(Len(users) + 1) :
    /\ Idle
    /\ IF UsersById(user_id) = {}
         THEN resp' = [op |-> "get_assigned_time", code |-> 404, req |-> user_id]
         ELSE \E u \in UsersById(user_id) :
                resp' = [op |-> "get_assigned_time", code |-> 200, req |-> user_id,
                         body |-> u.assigned_time]
    /\ UNCHANGED <<users, leaves, now, sess>>

\* ---------------------------------------------------------------- assign-time
DigitChars == {"0", "1", "2", "3", "4", "5", "6", "7", "8", "9"}

DigitVal(c) ==
  CASE c = "0" -> 0 [] c = "1" -> 1 [] c = "2" -> 2 [] c = "3" -> 3
    [] c = "4" -> 4 [] c = "5" -> 5 [] c = "6" -> 6 [] c = "7" -> 7
    [] c = "8" -> 8 [] c = "9" -> 9

\* Value of the digits s[from .. from+len-1].
NumAt(s, from, len) ==
  IF len = 1 THEN DigitVal(s[from]) ELSE 10 * DigitVal(s[from]) + DigitVal(s[from + 1])

\* %H as strptime's pattern 2[0-3]|[0-1]\d|\d, tried at the start of s with
\* the length given.
HourAt(s, len) ==
  IF len = 2
    THEN /\ Len(s) >= 2
         /\ \/ s[1] = "2" /\ s[2] \in {"0", "1", "2", "3"}
            \/ s[1] \in {"0", "1"} /\ s[2] \in DigitChars
    ELSE Len(s) >= 1 /\ s[1] \in DigitChars

\* %M as strptime's pattern [0-5]\d|\d, tried at position from.
MinuteAt(s, from, len) ==
  IF len = 2
    THEN /\ Len(s) >= from + 1
         /\ s[from] \in {"0", "1", "2", "3", "4", "5"}
         /\ s[from + 1] \in DigitChars
    ELSE Len(s) >= from /\ s[from] \in DigitChars

\* The pattern's alternatives in the order the regex engine tries them:
\* <<hour length, minute length>>.
Alternatives == << <<2, 2>>, <<2, 1>>, <<1, 2>>, <<1, 1>> >>

MatchesAs(s, alt) ==
  /\ HourAt(s, alt[1])
  /\ Len(s) >= alt[1] + 1
  /\ s[alt[1] + 1] = ":"
  /\ MinuteAt(s, alt[1] + 2, alt[2])

\* Mutant: two digits, a colon, two digits, with no check of their ranges.
ParseTime_NoRange(s) ==
  IF /\ Len(s) = 5
     /\ s[3] = ":"
     /\ \A i \in {1, 2, 4, 5} : s[i] \in DigitChars
    THEN << NumAt(s, 1, 2), NumAt(s, 4, 2) >>
    ELSE << >>

\* datetime.strptime(s, "%H:%M").time(): the first alternative that matches;
\* ValueError (<< >>) when none does or when it leaves data unconverted.
ParseTime(s) ==
  LET hits == {i \in 1..4 : MatchesAs(s, Alternatives[i])}
  IN IF hits = {} THEN << >>
     ELSE LET first == CHOOSE i \in hits : \A j \in hits : i <= j
              alt == Alternatives[first]
          IN IF alt[1] + 1 + alt[2] # Len(s) THEN << >>
             ELSE << NumAt(s, 1, alt[1]), NumAt(s, alt[1] + 2, alt[2]) >>

\* user.assigned_time = full_datetime; db.commit()
SetAssignedTime(user_id, full_datetime) ==
  [i \in 1..Len(users) |->
     IF users[i].id = user_id
       THEN [users[i] EXCEPT !.assigned_time = full_datetime]
       ELSE users[i]]

\* assign_time: the time is parsed before the user is looked up;
\* full_datetime is datetime.combine(date.today(), time_obj).
assign_time ==
  \E user_id \in 1..(Len(users) + 1), time \in TimeStrings :
    LET time_obj == ParseTime(time)
        full_datetime == <<now>> \o time_obj
        req == [user_id |-> user_id, time |-> time]
    IN /\ Idle
       /\ IF time_obj = << >>
            THEN /\ resp' = [op |-> "assign_time", code |-> 400, req |-> req]
                 /\ UNCHANGED users
            ELSE IF UsersById(user_id) = {}
              THEN /\ resp' = [op |-> "assign_time", code |-> 404, req |-> req]
                   /\ UNCHANGED users
              ELSE /\ users' = SetAssignedTime(user_id, full_datetime)
                   /\ resp' = [op |-> "assign_time", code |-> 200, req |-> req,
                               body |-> full_datetime]
       /\ UNCHANGED <<leaves, now, sess>>

\* ---------------------------------------------------------------- clock
\* The wall clock that datetime.utcnow and date.today read moves on between
\* requests.
Tick ==
  /\ Idle
  /\ now < MaxClock
  /\ now' = now + 1
  /\ UNCHANGED <<users, leaves, resp, sess>>

\* ---------------------------------------------------------------- session
\* get_db's "finally: db.close()": the response is out and the request's
\* session is closed; the next request may be served.
get_db ==
  /\ ~Idle
  /\ resp' = NoResp
  /\ UNCHANGED <<users, leaves, now, sess>>

\* ---------------------------------------------------------------- system
Init ==
  /\ users = << >>
  /\ leaves = << >>
  /\ now = 0
  /\ resp = NoResp
  /\ sess = [s \in Sessions |-> [pc |-> "idle"]]

Next ==
  \/ signup_admin
  \/ signup_user
  \/ notify_admin
  \/ get_pending_leave_requests
  \/ approve_leave
  \/ reject_leave
  \/ login_admin
  \/ login_user
  \/ get_users
  \/ get_assigned_time
  \/ assign_time
  \/ get_latest_leave_request_by_user
  \/ get_db
  \/ Tick

Spec == Init /\ [][Next]_vars

\* The handlers that read or write the users table, and the clock.
NextAccounts ==
  \/ signup_admin
  \/ signup_user
  \/ login_admin
  \/ login_user
  \/ get_users
  \/ get_assigned_time
  \/ assign_time
  \/ get_db
  \/ Tick

SpecAccounts == Init /\ [][NextAccounts]_vars

\* The handlers that read or write the leave_requests table, the signups
\* that create the users its rows refer to, and the clock.
NextLeaves ==
  \/ signup_admin
  \/ signup_user
  \/ notify_admin
  \/ get_pending_leave_requests
  \/ approve_leave
  \/ reject_leave
  \/ get_latest_leave_request_by_user
  \/ get_db
  \/ Tick

SpecLeaves == Init /\ [][NextLeaves]_vars

\* Signup requests served at once, each in its own session.
NextConc ==
  \/ \E s \in Sessions : signup_query(s)
  \/ \E s \in Sessions : signup_commit(s)
  \/ \E s \in Sessions : session_close(s)

SpecConc == Init /\ [][NextConc]_vars

\* ======================================================================
\* Properties
\* ======================================================================
\* A step in which the handler op serves a request; resp' is its response.
Step(op) == Idle /\ resp'.op = op

SignupStep == Step("signup_admin") \/ Step("signup_user")

UserIdx == 1..Len(users)
LeaveIdx == 1..Len(leaves)

NoTwoUsersSharePhone ==
  \A i, j \in UserIdx : i # j => users[i].phone # users[j].phone

\* C1: signups served one after another: a signup whose phone is the phone
\* of an existing user of either role gets 400 and leaves the users table as
\* it was, and no two users ever share a phone.
C1_DuplicatePhoneRejected ==
  /\ []NoTwoUsersSharePhone
  /\ [][SignupStep /\ (\E i \in UserIdx : users[i].phone = resp'.req.phone)
          => resp'.code = 400 /\ users' = users]_vars

\* C1 witness: a signup was refused with 400 for the phone of a user of the
\* other role.
C1_Witness ==
  /\ resp.op \in {"signup_admin", "signup_user"}
  /\ resp.code = 400
  /\ \E i \in UserIdx : users[i].phone = resp.req.phone /\ users[i].role # resp.req.role

\* C2 as stated: a request that is approved or rejected keeps its status.
C2_DecidedStatusIsFinal ==
  [][\A i \in LeaveIdx :
       leaves[i].status \in {"approved", "rejected"}
         => leaves'[i].status = leaves[i].status]_vars

\* C2 amended: a status changes only in a successful approve or reject of
\* that row's id, to approved or rejected respectively, and a decided row
\* never goes back to pending; approved and rejected may replace each other.
C2_StatusChangesOnlyByDecision ==
  [][/\ Len(leaves') >= Len(leaves)
     /\ \A i \in LeaveIdx :
          /\ leaves[i].status # "pending" => leaves'[i].status # "pending"
          /\ leaves'[i].status # leaves[i].status =>
               /\ \/ Step("approve_leave") /\ leaves'[i].status = "approved"
                  \/ Step("reject_leave") /\ leaves'[i].status = "rejected"
               /\ resp'.code = 200
               /\ resp'.req = leaves[i].id]_vars

\* C2 witness: an approve call has turned a rejected request into an approved
\* one while another request is still pending.
C2_Witness ==
  /\ resp.op = "approve_leave"
  /\ resp.code = 200
  /\ resp.was = "rejected"
  /\ \E i, j \in LeaveIdx :
       /\ leaves[i].id = resp.req /\ leaves[i].status = "approved"
       /\ leaves[j].status = "pending"

Decision(op) == IF op = "approve_leave" THEN "approved" ELSE "rejected"

\* C3: approve or reject of an existing id succeeds whatever the status was
\* and leaves the row with the status of this call, all else as it was; on
\* an absent id it gets 404 and changes no leave request.
C3_DecisionOverwrites ==
  [][\A op \in {"approve_leave", "reject_leave"} :
       Step(op) =>
         IF \E i \in LeaveIdx : leaves[i].id = resp'.req
           THEN /\ resp'.code = 200
                /\ Len(leaves') = Len(leaves)
                /\ \A i \in LeaveIdx :
                     IF leaves[i].id = resp'.req
                       THEN /\ leaves'[i].status = Decision(op)
                            /\ [leaves'[i] EXCEPT !.status = leaves[i].status] = leaves[i]
                       ELSE leaves'[i] = leaves[i]
           ELSE resp'.code = 404 /\ leaves' = leaves]_vars

\* C3 witness: reject has succeeded on a request that was approved, and the
\* stored status is rejected.
C3_Witness ==
  /\ resp.op = "reject_leave"
  /\ resp.code = 200
  /\ resp.was = "approved"
  /\ \E i \in LeaveIdx : leaves[i].id = resp.req /\ leaves[i].status = "rejected"

EveryLeaveHasItsUser ==
  \A i \in LeaveIdx : \E j \in UserIdx : users[j].id = leaves[i].user_id

\* C4: every leave request's user_id is the id of a user; notify-admin for
\* an id no user has gets 404 and adds nothing, for an existing id it adds
\* exactly one pending row with that user_id; no step removes a user.
C4_LeaveRefersToUser ==
  /\ []EveryLeaveHasItsUser
  /\ [][/\ \A j \in UserIdx : Len(users') >= j /\ users'[j].id = users[j].id
        /\ Step("notify_admin") =>
             IF \E j \in UserIdx : users[j].id = resp'.req.user_id
               THEN /\ resp'.code = 200
                    /\ Len(leaves') = Len(leaves) + 1
                    /\ SubSeq(leaves', 1, Len(leaves)) = leaves
                    /\ leaves'[Len(leaves')].status = "pending"
                    /\ leaves'[Len(leaves')].user_id = resp'.req.user_id
               ELSE resp'.code = 404 /\ leaves' = leaves]_vars

\* C4 witness: with a request already stored, notify-admin for an id that no
\* user has was refused with 404.
C4_Witness ==
  /\ resp.op = "notify_admin"
  /\ resp.code = 404
  /\ Len(leaves) >= 1
  /\ \A j \in UserIdx : users[j].id # resp.req.user_id

\* C5: the status endpoint, for an existing user with a request, returns a
\* stored request of that user no older than any request of that user; it
\* gets 404 when the user is absent or has no request.
C5_LatestLeaveReturned ==
  [][Step("get_latest_leave_request_by_user") =>
       LET uid == resp'.req
           mine == {i \in LeaveIdx : leaves[i].user_id = uid}
       IN /\ leaves' = leaves
          /\ IF (\E j \in UserIdx : users[j].id = uid) /\ mine # {}
               THEN /\ resp'.code = 200
                    /\ \E i \in mine : resp'.body = leaves[i]
                    /\ \A k \in mine : leaves[k].created_at <= resp'.body.created_at
               ELSE resp'.code = 404]_vars

\* C5 witness: the request returned was decided after it was made and is
\* newer than another request of the same user.
C5_Witness ==
  /\ resp.op = "get_latest_leave_request_by_user"
  /\ resp.code = 200
  /\ resp.body.status # "pending"
  /\ \E k \in LeaveIdx :
       /\ leaves[k].user_id = resp.req
       /\ leaves[k].created_at < resp.body.created_at

\* C6: login/admin succeeds exactly when a user has the username, the
\* password and role admin; otherwise it gets 401, never 404; it changes no
\* stored state.
C6_AdminLogin ==
  [][Step("login_admin") =>
       /\ resp'.code \in {200, 401}
       /\ resp'.code = 200 <=>
            \E i \in UserIdx :
              /\ users[i].username = resp'.req.username
              /\ users[i].password = resp'.req.password
              /\ users[i].role = "admin"
       /\ users' = users /\ leaves' = leaves]_vars

\* C6 witness: the username of an admin with a wrong password was refused
\* with 401.
C6_Witness ==
  /\ resp.op = "login_admin"
  /\ resp.code = 401
  /\ \E i \in UserIdx :
       /\ users[i].username = resp.req.username
       /\ users[i].role = "admin"
       /\ users[i].password # resp.req.password

\* C7 as stated: a signup with a phone no user has succeeds and adds exactly
\* one user with the role asked for.
C7_FreshPhoneSucceeds ==
  [][SignupStep /\ (\A i \in UserIdx : users[i].phone # resp'.req.phone)
       => /\ resp'.code = 200
          /\ Len(users') = Len(users) + 1
          /\ users'[Len(users')].role = resp'.req.role]_vars

\* C8: two signups with one phone, their queries and commits interleaved:
\* the commit of a row whose phone is already stored is refused and leaves
\* the table as it was, so no two users ever share a phone.
C8_ConcurrentDuplicateRejected ==
  /\ []NoTwoUsersSharePhone
  /\ [][\A s \in Sessions :
          /\ sess[s].pc = "checked"
          /\ sess'[s].pc = "done"
          /\ \E i \in UserIdx : users[i].phone = sess[s].req.phone
          => sess'[s].code # 200 /\ users' = users]_vars

\* C8 witness: two sessions passed the query with one phone and different
\* usernames; one commit stored its row and the other was refused.
C8_Witness ==
  \E s, t \in Sessions :
    /\ sess[s].pc = "done" /\ sess[s].code = 200
    /\ sess[t].pc = "done" /\ sess[t].code = 500
    /\ sess[s].req.phone = sess[t].req.phone
    /\ sess[s].req.username # sess[t].req.username
    /\ Cardinality({i \in UserIdx : users[i].phone = sess[s].req.phone}) = 1

\* The digits d read as a decimal number.
RECURSIVE Decimal(_)
Decimal(d) ==
  IF Len(d) = 0 THEN 0
  ELSE 10 * Decimal(SubSeq(d, 1, Len(d) - 1)) + DigitVal(d[Len(d)])

AllDigits(d) == \A i \in 1..Len(d) : d[i] \in DigitChars

\* An hour in 0..23 and a minute in 0..59, of one or two digits each, with a
\* colon between them.
HourMinute(s) ==
  \E c \in 1..Len(s) :
    LET hh == SubSeq(s, 1, c - 1)
        mm == SubSeq(s, c + 1, Len(s))
    IN /\ s[c] = ":"
       /\ Len(hh) \in {1, 2} /\ AllDigits(hh) /\ Decimal(hh) \in 0..23
       /\ Len(mm) \in {1, 2} /\ AllDigits(mm) /\ Decimal(mm) \in 0..59

\* C9: assign-time with a time that is no hour and minute in range gets 400
\* whether the user exists or not; with a time in range and an absent user
\* it gets 404; both change no user; with a time in range and an existing
\* user it changes that user's assigned_time and nothing else.
C9_AssignTimeFrame ==
  [][Step("assign_time") =>
       LET uid == resp'.req.user_id
       IN /\ leaves' = leaves
          /\ IF ~HourMinute(resp'.req.time)
               THEN resp'.code = 400 /\ users' = users
               ELSE IF \A i \in UserIdx : users[i].id # uid
                 THEN resp'.code = 404 /\ users' = users
                 ELSE /\ resp'.code = 200
                      /\ Len(users') = Len(users)
                      /\ \A i \in UserIdx :
                           IF users[i].id = uid
                             THEN /\ users'[i].assigned_time # NoTime
                                  /\ [users'[i] EXCEPT !.assigned_time =
                                        users[i].assigned_time] = users[i]
                             ELSE users'[i] = users[i]]_vars

\* C9 witness: a time was assigned to one of two users, the other keeping a
\* different assigned time.
C9_Witness ==
  /\ resp.op = "assign_time"
  /\ resp.code = 200
  /\ \E i, j \in UserIdx :
       /\ users[i].id = resp.req.user_id
       /\ users[i].assigned_time = resp.body
       /\ j # i
       /\ users[j].assigned_time # NoTime
       /\ users[j].assigned_time # users[i].assigned_time

\* C10: the users endpoint returns exactly the users with role user, never
\* one with role admin; no step changes the role of a user, and a successful
\* signup/admin stores a row with role admin.
C10_UsersEndpointExcludesAdmins ==
  [][/\ \A i \in UserIdx : Len(users') >= i /\ users'[i].role = users[i].role
     /\ Step("signup_admin") /\ resp'.code = 200
          => users'[Len(users')].role = "admin"
     /\ Step("get_users") =>
          /\ \A i \in UserIdx : users[i] \in resp'.body <=> users[i].role = "user"
          /\ \A b \in resp'.body :
               b.role # "admin" /\ \E i \in UserIdx : users[i] = b]_vars

\* C10 witness: the users endpoint answered with a user while an admin is
\* stored.
C10_Witness ==
  /\ resp.op = "get_users"
  /\ resp.body # {}
  /\ \E i \in UserIdx : users[i].role = "admin"
====
